---- MODULE Spec2Model ----
(***************************************************************************)
(* State-machine model of src/app.py (medication helper, Streamlit app).   *)
(*                                                                         *)
(* Text is modelled as a sequence of characters, one string per character. *)
(* The module is ASCII only, so a Hangul syllable of the source is written *)
(* as its romanisation and counts as ONE character:                        *)
(*   ah-chim  = morning      jeom-sim = lunch      jeo-nyeok = evening     *)
(*   chwi-chim = bedtime     ja-gi- -jeon = before sleep                   *)
(*   N-hoe = "N times"       il = day              sik-hu = after meals    *)
(* Latin letters, digits and punctuation are themselves.                   *)
(***************************************************************************)
EXTENDS Integers, Sequences, FiniteSets, TLC

VARIABLES
    api_key,         \* st.session_state.api_key (None or a key)
    medications,     \* st.session_state.medications (a JSON value)
    chat_history,    \* st.session_state.chat_history
    api_key_input,   \* the sidebar text input's widget value
    menu,            \* the sidebar radio's widget value
    uploaded_file,   \* whether the file uploader holds an image
    shown,           \* the messages the last script run showed to the user
    last_run,        \* the last script run: the user action that started it,
                     \* the outcome of its call to the external model ("none"
                     \* when it made no call), whether the session held a
                     \* credential when the call was made, the response text
    schedule,        \* the schedule computed by the last run of the schedule page
    pc,              \* position of a direct function call: "idle", "call", "done"
    arg,             \* arguments of a direct function call
    ret              \* its result

vars == <<api_key, medications, chat_history, api_key_input, menu, uploaded_file,
          shown, last_run, schedule, pc, arg, ret>>

----------------------------------------------------------------------------
(* Bounds of the model.                                                    *)

MaxPieces == 3       \* a timing text is built of at most this many pieces
MaxAsks == 2         \* questions asked before the transcript is cleared
MaxMeds == 2         \* medication lists passed directly to generate_schedule

----------------------------------------------------------------------------
(* Python str operations used by the source.                               *)

SetMin(S) == CHOOSE x \in S : \A y \in S : x <= y
SetMax(S) == CHOOSE x \in S : \A y \in S : x >= y

\* s.find(sub) + 1: the first position of sub in s, 0 when there is none.
Find(s, sub) ==
    LET m == Len(sub)
        at == {i \in 1..(Len(s) - m + 1) : SubSeq(s, i, i + m - 1) = sub}
    IN  IF at = {} THEN 0 ELSE SetMin(at)

\* sub in s
Contains(sub, s) == Find(s, sub) # 0

\* s.split(sep) for a non-empty sep: the pieces between the occurrences of
\* sep, scanned left to right without overlap.
RECURSIVE split(_, _)
split(s, sep) ==
    LET i == Find(s, sep)
    IN  IF i = 0 THEN <<s>>
        ELSE <<SubSeq(s, 1, i - 1)>>
                 \o split(SubSeq(s, i + Len(sep), Len(s)), sep)

Whitespace == {" ", "\n", "\t"}

\* s.strip()
strip(s) ==
    LET keep == {i \in 1..Len(s) : s[i] \notin Whitespace}
    IN  IF keep = {} THEN <<>> ELSE SubSeq(s, SetMin(keep), SetMax(keep))

Upper == <<"A", "B", "C", "D", "E", "F", "G", "H", "I", "J", "K", "L", "M",
           "N", "O", "P", "Q", "R", "S", "T", "U", "V", "W", "X", "Y", "Z">>
Lower == <<"a", "b", "c", "d", "e", "f", "g", "h", "i", "j", "k", "l", "m",
           "n", "o", "p", "q", "r", "s", "t", "u", "v", "w", "x", "y", "z">>

\* s.lower(): Latin capitals are folded, every other character (Hangul,
\* digits, punctuation) is kept.
lower(s) ==
    [i \in 1..Len(s) |->
        IF \E k \in 1..26 : Upper[k] = s[i]
        THEN Lower[CHOOSE k \in 1..26 : Upper[k] = s[i]]
        ELSE s[i]]

----------------------------------------------------------------------------
(* JSON values as Python holds them after json.loads.  Every value is a    *)
(* record of the same four fields, so that any two values can be compared. *)

JNull == [t |-> "null", s |-> <<>>, n |-> 0, items |-> <<>>]
JBool(b) == [t |-> "bool", s |-> <<>>, n |-> IF b THEN 1 ELSE 0, items |-> <<>>]
JNum(k) == [t |-> "num", s |-> <<>>, n |-> k, items |-> <<>>]
JStr(text) == [t |-> "str", s |-> text, n |-> 0, items |-> <<>>]
JArr(elems) == [t |-> "arr", s |-> <<>>, n |-> 0, items |-> elems]
\* a dict: its members in insertion order, each key once
JKV(k, v) == [t |-> "kv", s |-> k, n |-> 0, items |-> <<v>>]
JObj(members) == [t |-> "obj", s |-> <<>>, n |-> 0, items |-> members]

\* Python's None
None == JNull

HasKey(d, k) == \E i \in 1..Len(d.items) : d.items[i].s = k
\* d[k] for a dict d that has k
Item(d, k) == d.items[CHOOSE i \in 1..Len(d.items) : d.items[i].s = k].items[1]
\* d.get(k, default)
get(d, k, default) == IF HasKey(d, k) THEN Item(d, k) ELSE default
\* d[k] = v: a key already present keeps its place and takes the new value
DictSet(members, k, v) ==
    IF \E i \in 1..Len(members) : members[i].s = k
    THEN [i \in 1..Len(members) |->
             IF members[i].s = k THEN JKV(k, v) ELSE members[i]]
    ELSE Append(members, JKV(k, v))

\* bool(v)
Truthy(v) ==
    CASE v.t = "null" -> FALSE
      [] v.t = "bool" -> v.n = 1
      [] v.t = "num" -> v.n # 0
      [] v.t = "str" -> v.s # <<>>
      [] OTHER -> v.items # <<>>

----------------------------------------------------------------------------
(* json.loads, as far as the texts of this model need it: objects, arrays, *)
(* strings without escapes, non-negative integers, true, false, null, and  *)
(* whitespace between tokens.  Anything else is a JSONDecodeError.         *)

Digits == <<"0", "1", "2", "3", "4", "5", "6", "7", "8", "9">>
IsDigit(c) == \E k \in 1..10 : Digits[k] = c
DigitVal(c) == (CHOOSE k \in 1..10 : Digits[k] = c) - 1

ParseFail == [ok |-> FALSE, v |-> JNull, next |-> 0]
Parsed(v, next) == [ok |-> TRUE, v |-> v, next |-> next]

\* the first position at or after i that holds no whitespace
SkipWS(s, i) ==
    LET at == {j \in i..Len(s) : s[j] \notin Whitespace}
    IN  IF at = {} THEN Len(s) + 1 ELSE SetMin(at)

StartsWith(s, i, word) ==
    /\ i + Len(word) - 1 <= Len(s)
    /\ SubSeq(s, i, i + Len(word) - 1) = word

\* a string token whose opening quote is at i
ParseString(s, i) ==
    LET close == {j \in (i + 1)..Len(s) : s[j] = "\""}
    IN  IF close = {} THEN ParseFail
        ELSE LET j == SetMin(close)
                 body == SubSeq(s, i + 1, j - 1)
             IN  IF \E k \in 1..Len(body) : body[k] \in {"\\", "\n", "\t"}
                 THEN ParseFail
                 ELSE Parsed(JStr(body), j + 1)

RECURSIVE DigitsValue(_)
DigitsValue(ds) ==
    IF ds = <<>> THEN 0
    ELSE 10 * DigitsValue(SubSeq(ds, 1, Len(ds) - 1)) + DigitVal(ds[Len(ds)])

\* an integer token starting at i: 0, or a run of digits not led by 0
ParseNumber(s, i) ==
    IF s[i] = "0" THEN Parsed(JNum(0), i + 1)
    ELSE LET stop == {j \in i..Len(s) : ~IsDigit(s[j])}
             j == IF stop = {} THEN Len(s) + 1 ELSE SetMin(stop)
         IN  Parsed(JNum(DigitsValue(SubSeq(s, i, j - 1))), j)

RECURSIVE ParseValue(_, _), ParseElements(_, _, _), ParseMembers(_, _, _)

ParseValue(s, i) ==
    LET j == SkipWS(s, i)
    IN  IF j > Len(s) THEN ParseFail
        ELSE CASE s[j] = "{" ->
                    LET k == SkipWS(s, j + 1)
                    IN  IF k <= Len(s) /\ s[k] = "}"
                        THEN Parsed(JObj(<<>>), k + 1)
                        ELSE ParseMembers(s, k, <<>>)
               [] s[j] = "[" ->
                    LET k == SkipWS(s, j + 1)
                    IN  IF k <= Len(s) /\ s[k] = "]"
                        THEN Parsed(JArr(<<>>), k + 1)
                        ELSE ParseElements(s, k, <<>>)
               [] s[j] = "\"" -> ParseString(s, j)
               [] IsDigit(s[j]) -> ParseNumber(s, j)
               [] StartsWith(s, j, <<"n", "u", "l", "l">>) -> Parsed(JNull, j + 4)
               [] StartsWith(s, j, <<"t", "r", "u", "e">>) ->
                    Parsed(JBool(TRUE), j + 4)
               [] StartsWith(s, j, <<"f", "a", "l", "s", "e">>) ->
                    Parsed(JBool(FALSE), j + 5)
               [] OTHER -> ParseFail

\* the elements of an array from i on, acc being those read so far
ParseElements(s, i, acc) ==
    LET e == ParseValue(s, i)
    IN  IF ~e.ok THEN ParseFail
        ELSE LET k == SkipWS(s, e.next)
             IN  IF k > Len(s) THEN ParseFail
                 ELSE IF s[k] = "," THEN ParseElements(s, k + 1, Append(acc, e.v))
                 ELSE IF s[k] = "]" THEN Parsed(JArr(Append(acc, e.v)), k + 1)
                 ELSE ParseFail

\* the members of an object from i on (i holds no whitespace)
ParseMembers(s, i, acc) ==
    IF i > Len(s) \/ s[i] # "\"" THEN ParseFail
    ELSE LET key == ParseString(s, i)
         IN  IF ~key.ok THEN ParseFail
             ELSE LET c == SkipWS(s, key.next)
                  IN  IF c > Len(s) \/ s[c] # ":" THEN ParseFail
                      ELSE LET e == ParseValue(s, c + 1)
                           IN  IF ~e.ok THEN ParseFail
                               ELSE LET k == SkipWS(s, e.next)
                                        now == DictSet(acc, key.v.s, e.v)
                                    IN  IF k > Len(s) THEN ParseFail
                                        ELSE IF s[k] = ","
                                        THEN ParseMembers(s, SkipWS(s, k + 1), now)
                                        ELSE IF s[k] = "}"
                                        THEN Parsed(JObj(now), k + 1)
                                        ELSE ParseFail

\* json.loads(s): ok is FALSE where Python raises JSONDecodeError
json_loads(s) ==
    LET r == ParseValue(s, 1)
    IN  IF r.ok /\ SkipWS(s, r.next) > Len(s)
        THEN [ok |-> TRUE, v |-> r.v]
        ELSE [ok |-> FALSE, v |-> JNull]

\* The backquote character (the module's lexer takes none inside a string).
BQ == "backquote"
Fence == <<BQ, BQ, BQ>>
FenceJson == <<BQ, BQ, BQ, "j", "s", "o", "n">>

\* analyze_prescription from the response text on: the fenced block is cut
\* out and the rest is parsed; ok is FALSE where an exception is caught.
\* (Python raises IndexError for [1] never: the marker is in the text.)
parse_response(response_text) ==
    LET text == IF Contains(FenceJson, response_text)
                THEN split(split(response_text, FenceJson)[2], Fence)[1]
                ELSE IF Contains(Fence, response_text)
                THEN split(split(response_text, Fence)[2], Fence)[1]
                ELSE response_text
    IN  json_loads(strip(text))

----------------------------------------------------------------------------
(* generate_schedule.                                                      *)

\* k in v for a str, list or dict v (other types raise TypeError: PyInRaises)
PyIn(k, v) ==
    CASE v.t = "str" -> Contains(k, v.s)
      [] v.t = "arr" -> \E i \in 1..Len(v.items) : v.items[i] = JStr(k)
      [] v.t = "obj" -> HasKey(v, k)
      [] OTHER -> FALSE
PyInRaises(v) == v.t \in {"null", "bool", "num"}

Morning == <<"ah", "chim">>
Lunch == <<"jeom", "sim">>
Evening == <<"jeo", "nyeok">>
Bedtime == <<"chwi", "chim">>
BeforeSleep == <<"ja", "gi", " ", "jeon">>
ThreeTimes == <<"3", "hoe">>
TwoTimes == <<"2", "hoe">>
OnceADay == <<"1", "il", " ", "1", "hoe">>

KeyName == <<"n", "a", "m", "e">>
KeyTiming == <<"t", "i", "m", "i", "n", "g">>
KeyFrequency == <<"f", "r", "e", "q", "u", "e", "n", "c", "y">>
KeyDosage == <<"d", "o", "s", "a", "g", "e">>

\* timing_times with the two bedtime keywords tested one after the other
timing_times_bedtime_twice(timing) ==
    (IF Contains(Morning, timing) THEN <<"08:00">> ELSE <<>>)
    \o (IF Contains(Lunch, timing) THEN <<"12:00">> ELSE <<>>)
    \o (IF Contains(Evening, timing) THEN <<"18:00">> ELSE <<>>)
    \o (IF Contains(Bedtime, timing) THEN <<"22:00">> ELSE <<>>)
    \o (IF Contains(BeforeSleep, timing) THEN <<"22:00">> ELSE <<>>)

\* lines 82-90: the slots named in the (lowered) timing text
timing_times(timing) ==
    (IF Contains(Morning, timing) THEN <<"08:00">> ELSE <<>>)
    \o (IF Contains(Lunch, timing) THEN <<"12:00">> ELSE <<>>)
    \o (IF Contains(Evening, timing) THEN <<"18:00">> ELSE <<>>)
    \o (IF Contains(Bedtime, timing) \/ Contains(BeforeSleep, timing)
        THEN <<"22:00">> ELSE <<>>)

\* lines 93-99: the default taken from the frequency
frequency_times(frequency) ==
    IF PyIn(ThreeTimes, frequency) THEN <<"08:00", "12:00", "18:00">>
    ELSE IF PyIn(TwoTimes, frequency) THEN <<"08:00", "18:00">>
    ELSE <<"08:00">>

\* times with the frequency default applied whenever the frequency names a
\* count, whether or not the timing named a slot
times_frequency_first(med) ==
    LET timing == lower(get(med, KeyTiming, JStr(<<>>)).s)
        frequency == get(med, KeyFrequency, JStr(OnceADay))
        found == timing_times(timing)
    IN  IF PyIn(ThreeTimes, frequency) \/ PyIn(TwoTimes, frequency) \/ found = <<>>
        THEN frequency_times(frequency)
        ELSE found

\* lines 78-99: the time slots of one medication
times(med) ==
    LET timing == lower(get(med, KeyTiming, JStr(<<>>)).s)
        frequency == get(med, KeyFrequency, JStr(OnceADay))
        found == timing_times(timing)
    IN  IF found # <<>> THEN found ELSE frequency_times(frequency)

\* whether the loop body of generate_schedule raises for this element
med_raises(med) ==
    \/ med.t # "obj"                                   \* no .get
    \/ get(med, KeyTiming, JStr(<<>>)).t # "str"       \* no .lower
    \/ /\ timing_times(lower(get(med, KeyTiming, JStr(<<>>)).s)) = <<>>
       /\ PyInRaises(get(med, KeyFrequency, JStr(OnceADay)))
    \/ ~HasKey(med, KeyName)                           \* med['name']

\* lines 108-114: the entries one medication adds to one date
entries(med) ==
    LET ts == times(med)
    IN  [j \in 1..Len(ts) |->
            [medication |-> Item(med, KeyName),
             time |-> ts[j],
             dosage |-> get(med, KeyDosage, JStr(<<>>)),
             taken |-> FALSE]]

NoSchedule == [d \in {} |-> <<>>]

\* lines 101-114 for one medication (number i of the list, es its entries)
\* from day on.  now[k] is the date datetime.now() gives at the k-th reading
\* of the clock, in days from the day on which the call started; the loop
\* reads the clock once for each medication and day.
RECURSIVE day_loop(_, _, _, _, _)
day_loop(es, now, i, day, sched) ==
    IF day > 6 THEN sched
    ELSE LET date_str == now[7 * (i - 1) + day + 1] + day
             with == [d \in DOMAIN sched \cup {date_str} |->
                         (IF d \in DOMAIN sched THEN sched[d] ELSE <<>>)
                         \o (IF d = date_str THEN es ELSE <<>>)]
         IN  day_loop(es, now, i, day + 1, with)

\* lines 77-114 from medication i on
RECURSIVE med_loop(_, _, _, _)
med_loop(meds, now, i, sched) ==
    IF i > Len(meds) THEN sched
    ELSE med_loop(meds, now, i + 1, day_loop(entries(meds[i]), now, i, 0, sched))

\* generate_schedule with the seven dates laid out before the medications
\* are gone through
generate_schedule_dates_first(meds, now) ==
    med_loop(meds, now, 1, [d \in 0..6 |-> <<>>])

\* generate_schedule(medications) for a list of medications none of which
\* raises, under the clock readings now
generate_schedule(meds, now) == med_loop(meds, now, 1, NoSchedule)

\* The clock readings one call can see: 7 per medication, midnight passing at
\* most once while the call runs (after reading number c, when c > 0).
ClockReadings(n) ==
    {[k \in 1..(7 * n) |-> IF c > 0 /\ k > c THEN 1 ELSE 0] : c \in 0..(7 * n)}

----------------------------------------------------------------------------
(* The session before any script run (lines 16-21), and the widgets'       *)
(* defaults.                                                               *)

SessionStart ==
    /\ api_key = None
    /\ medications = JArr(<<>>)
    /\ chat_history = <<>>
    /\ api_key_input = <<>>
    /\ menu = "register"
    /\ uploaded_file = FALSE
    /\ shown = {}
    /\ last_run = [action |-> "none", call |-> "none", credential |-> FALSE,
                   response |-> <<>>]
    /\ schedule = NoSchedule

SessionIdle ==
    UNCHANGED <<api_key, medications, chat_history, api_key_input, menu,
                uploaded_file, shown, last_run, schedule>>

----------------------------------------------------------------------------
(* Direct calls of the time-slot resolver (the first half of the loop body *)
(* of generate_schedule) on one medication.                                *)

\* a medication record: a name, and the optional fields given as a sequence
\* of length 0 (field absent) or 1
Medication(name, timing, frequency, dosage) ==
    JObj(<<JKV(KeyName, JStr(name))>>
         \o (IF timing = <<>> THEN <<>> ELSE <<JKV(KeyTiming, JStr(timing[1]))>>)
         \o (IF frequency = <<>> THEN <<>>
             ELSE <<JKV(KeyFrequency, JStr(frequency[1]))>>)
         \o (IF dosage = <<>> THEN <<>> ELSE <<JKV(KeyDosage, JStr(dosage[1]))>>))

TimingPieces ==
    {Morning, Lunch, Evening, Bedtime, BeforeSleep,
     <<",", " ">>, <<"ah">>, <<"chim">>, <<"P", "M">>}

RECURSIVE TimingTexts(_)
TimingTexts(k) ==
    IF k = 0 THEN {<<>>}
    ELSE TimingTexts(k - 1)
             \cup {t \o p : t \in TimingTexts(k - 1), p \in TimingPieces}

FrequencyTexts ==
    {<<>>,
     <<"1", "il", " ", "3", "hoe">>,
     <<"1", "il", " ", "2", "hoe">>,
     <<"2", "hoe", " ", "3", "hoe">>,
     <<"3", " ", "hoe">>}

ResolverInputs ==
    {Medication(<<"A">>, t, f, <<>>) :
        t \in {<<>>} \cup {<<x>> : x \in TimingTexts(MaxPieces)},
        f \in {<<>>} \cup {<<x>> : x \in FrequencyTexts}}

InitTimes ==
    /\ SessionStart
    /\ pc = "call"
    /\ ret = <<>>
    /\ \E med \in ResolverInputs : arg = [medications |-> <<med>>, now |-> <<>>]

CallTimes ==
    /\ pc = "call"
    /\ ret' = times(arg.medications[1])
    /\ pc' = "done"
    /\ UNCHANGED arg
    /\ SessionIdle

SpecTimes == InitTimes /\ [][CallTimes]_vars

----------------------------------------------------------------------------
(* Direct calls of generate_schedule.                                      *)

ScheduleMeds ==
    {Medication(<<"A">>, <<Morning \o <<",", " ">> \o Evening>>, <<>>, <<<<"5">>>>),
     Medication(<<"B">>, <<Morning>>, <<<<"1", "il", " ", "3", "hoe">>>>, <<>>),
     Medication(<<"C">>, <<>>, <<<<"1", "il", " ", "3", "hoe">>>>, <<>>),
     Medication(<<"A">>, <<Bedtime>>, <<>>, <<>>)}

RECURSIVE Lists(_, _)
Lists(S, k) ==
    IF k = 0 THEN {<<>>}
    ELSE Lists(S, k - 1) \cup {Append(l, x) : l \in Lists(S, k - 1), x \in S}

InitSchedule ==
    /\ SessionStart
    /\ pc = "call"
    /\ ret = <<>>
    /\ \E meds \in Lists(ScheduleMeds, MaxMeds) :
           \E now \in ClockReadings(Len(meds)) :
               arg = [medications |-> meds, now |-> now]

CallGenerateSchedule ==
    /\ pc = "call"
    /\ ret' = generate_schedule(arg.medications, arg.now)
    /\ pc' = "done"
    /\ UNCHANGED arg
    /\ SessionIdle

SpecSchedule == InitSchedule /\ [][CallGenerateSchedule]_vars

----------------------------------------------------------------------------
(* Direct calls of the response parser (analyze_prescription from line 59  *)
(* on) on a payload given bare and given inside a fenced block.            *)

RECURSIVE NumberText(_)
NumberText(k) ==
    IF k < 10 THEN <<Digits[k + 1]>>
    ELSE NumberText(k \div 10) \o <<Digits[(k % 10) + 1]>>

\* The JSON text of a value, written the way json.dumps writes it: the
\* texts the external model is taken to answer with.
RECURSIVE JsonText(_), JoinTexts(_, _)
JoinTexts(vs, i) ==
    IF i > Len(vs) THEN <<>>
    ELSE (IF i > 1 THEN <<",", " ">> ELSE <<>>) \o JsonText(vs[i])
             \o JoinTexts(vs, i + 1)
JsonText(v) ==
    CASE v.t = "null" -> <<"n", "u", "l", "l">>
      [] v.t = "bool" -> IF v.n = 1 THEN <<"t", "r", "u", "e">>
                         ELSE <<"f", "a", "l", "s", "e">>
      [] v.t = "num" -> NumberText(v.n)
      [] v.t = "str" -> <<"\"">> \o v.s \o <<"\"">>
      [] v.t = "kv" -> <<"\"">> \o v.s \o <<"\"", ":", " ">> \o JsonText(v.items[1])
      [] v.t = "arr" -> <<"[">> \o JoinTexts(v.items, 1) \o <<"]">>
      [] v.t = "obj" -> <<"{">> \o JoinTexts(v.items, 1) \o <<"}">>

KeyMedications == <<"m", "e", "d", "i", "c", "a", "t", "i", "o", "n", "s">>
KeyWarnings == <<"w", "a", "r", "n", "i", "n", "g", "s">>

MedA == Medication(<<"A">>, <<Morning \o <<",", " ">> \o Evening>>, <<>>, <<<<"5">>>>)
MedB == Medication(<<"B">>, <<>>, <<<<"1", "il", " ", "3", "hoe">>>>, <<>>)
\* a record whose warnings quote a code sample
MedQuoting ==
    JObj(<<JKV(KeyName, JStr(<<"A">>)),
           JKV(KeyWarnings, JStr(Fence \o <<"1">> \o Fence))>>)

PayloadValues ==
    {JObj(<<JKV(KeyMedications, JArr(<<MedA>>))>>),
     JObj(<<JKV(KeyMedications, JArr(<<MedA, MedB>>))>>),
     JObj(<<JKV(KeyMedications, JArr(<<>>))>>),
     JObj(<<JKV(KeyMedications, JArr(<<MedQuoting>>))>>),
     JObj(<<>>),
     JArr(<<JNum(10), JBool(TRUE), JNull>>),
     JNum(5),
     JStr(<<"o", "k">>),
     JStr(Fence \o <<"1">> \o Fence),
     JStr(<<BQ>>)}

TextBefore == {<<>>, <<"\n">>, <<"J", "S", "O", "N", ":", "\n">>}
TextAfter == {<<>>, <<"\n">>, <<"\n", "o", "k", ".">>}
FenceOpenings == {FenceJson, Fence}

InitParse ==
    /\ SessionStart
    /\ pc = "call"
    /\ ret = <<>>
    /\ \E v \in PayloadValues, b \in TextBefore, a \in TextAfter,
          f \in FenceOpenings :
           arg = [value |-> v, payload |-> JsonText(v),
                  fenced |-> b \o f \o <<"\n">> \o JsonText(v) \o <<"\n">>
                                  \o Fence \o a]

CallParse ==
    /\ pc = "call"
    /\ ret' = [bare |-> parse_response(arg.payload),
               fenced |-> parse_response(arg.fenced)]
    /\ pc' = "done"
    /\ UNCHANGED arg
    /\ SessionIdle

SpecParse == InitParse /\ [][CallParse]_vars

----------------------------------------------------------------------------
(* The app: one action per user interaction, each a whole run of the       *)
(* script (Streamlit runs app.py top to bottom on every interaction).      *)

Keys == {<<"k", "1">>, <<"k", "2">>}
Menus == {"register", "schedule", "warnings", "chat"}
Questions == {<<"?">>}
\* what the external model answers to a text prompt
Answer == <<"o", "k">>
\* "... jung oryu balsaeng: ..." (lines 144 and 171)
ErrorReply == <<"o", "ryu">>

\* The texts the external model may answer the extraction prompt with.
Responses ==
    {\* well formed, fenced and bare
     <<"J", "S", "O", "N", ":", "\n">> \o FenceJson \o <<"\n">>
         \o JsonText(JObj(<<JKV(KeyMedications, JArr(<<MedA>>))>>))
         \o <<"\n">> \o Fence,
     JsonText(JObj(<<JKV(KeyMedications, JArr(<<MedA, MedB>>))>>)),
     JsonText(JObj(<<JKV(KeyMedications, JArr(<<>>))>>)),
     \* "bunseok bulga" (line 53): not JSON
     <<"bun", "seok", " ", "bul", "ga">>,
     \* JSON without the medications key
     JsonText(JObj(<<>>)),
     JsonText(JObj(<<JKV(KeyName, JStr(<<"A">>))>>)),
     \* JSON that is no object
     JsonText(JArr(<<JStr(KeyMedications)>>)),
     JsonText(JNum(5)),
     JsonText(JStr(KeyMedications)),
     \* medications that are no list of records with a name
     JsonText(JObj(<<JKV(KeyMedications, JStr(<<"A">>))>>)),
     JsonText(JObj(<<JKV(KeyMedications,
                         JArr(<<JObj(<<JKV(KeyDosage, JStr(<<"5">>))>>)>>))>>)),
     JsonText(JObj(<<JKV(KeyMedications,
                         JArr(<<JObj(<<JKV(KeyName, JNum(5))>>)>>))>>))}

\* lines 185-186: the key the session holds after the sidebar ran
sidebar_key(key, input) == IF input # <<>> THEN JStr(input) ELSE key

\* lines 24-28
init_gemini(key) == Truthy(key)

\* the run going on without a key
stopped_never(key) == FALSE

\* lines 200-203: st.stop() ends the run before any page is built
stopped(key) == ~Truthy(key)

\* lines 33-70: the result of analyze_prescription; call is the outcome of
\* generate_content and response_text its text
analyze_caught(call, response_text) ==
    call = "failed" \/ ~parse_response(response_text).ok
analyze_prescription(call, response_text) ==
    IF analyze_caught(call, response_text) THEN None
    ELSE parse_response(response_text).v

\* line 228-229 raise (TypeError: 'in' on a number, [..] on a list or str)
register_raises(result) ==
    /\ Truthy(result)
    /\ \/ PyInRaises(result)
       \/ PyIn(KeyMedications, result) /\ result.t # "obj"

\* the list emptied when the analysis gave nothing
analyzed_medications_or_empty(result, old) ==
    IF Truthy(result) /\ PyIn(KeyMedications, result)
    THEN Item(result, KeyMedications)
    ELSE JArr(<<>>)

\* lines 228-229: the list stored after the analysis
analyzed_medications(result, old) ==
    IF Truthy(result) /\ PyIn(KeyMedications, result)
    THEN Item(result, KeyMedications)
    ELSE old

\* lines 239-240 and 306-309: building the list of the stored medications
\* raises (a record without name, an element that is no record, a value that
\* cannot be enumerated)
list_raises(meds) ==
    /\ Truthy(meds)
    /\ ~(/\ meds.t = "arr"
         /\ \A i \in 1..Len(meds.items) :
                meds.items[i].t = "obj" /\ HasKey(meds.items[i], KeyName))

\* lines 124-129 and 152: ', '.join of the names raises inside the try
join_raises(meds) ==
    \/ PyInRaises(meds)
    \/ meds.t = "str" /\ meds.s # <<>>
    \/ meds.t = "obj" /\ meds.items # <<>>
    \/ /\ meds.t = "arr"
       /\ \E i \in 1..Len(meds.items) :
              \/ meds.items[i].t # "obj"
              \/ ~HasKey(meds.items[i], KeyName)
              \/ Item(meds.items[i], KeyName).t # "str"

\* line 258 raises
schedule_raises(meds) ==
    ~(/\ meds.t = "arr"
      /\ \A i \in 1..Len(meds.items) : ~med_raises(meds.items[i]))

\* lines 119-144 and 147-171: the text returned; call is "none" when the
\* prompt could not be built
check_drug_interactions(call) == IF call = "ok" THEN Answer ELSE ErrorReply
chatbot_response(call) == IF call = "ok" THEN Answer ELSE ErrorReply

\* the reply stored only when the model answered
ask_history_without_error(history, user_input, response) ==
    IF response = ErrorReply
    THEN Append(history, [role |-> "user", content |-> user_input])
    ELSE Append(Append(history, [role |-> "user", content |-> user_input]),
                [role |-> "assistant", content |-> response])

\* lines 350-358
ask_history(history, user_input, response) ==
    Append(Append(history, [role |-> "user", content |-> user_input]),
           [role |-> "assistant", content |-> response])

CallOutcomes(meds) == IF join_raises(meds) THEN {"none"} ELSE {"ok", "failed"}

\* lines 185-188
SidebarShown(input) ==
    IF input # <<>> /\ init_gemini(sidebar_key(None, input))
    THEN {"api_connected"} ELSE {}

\* The rest of a run from line 199 on when no button was pressed: what the
\* page shows (more: what the run has shown before), the schedule it
\* computes.
Page(key, input, m, meds, history, more) ==
    IF stopped(key)
    THEN shown' = SidebarShown(input) \cup {"enter_api_key"}
         /\ schedule' = NoSchedule
    ELSE IF m = "schedule" /\ Truthy(meds) /\ ~schedule_raises(meds)
    THEN \E now \in ClockReadings(Len(meds.items)) :
             /\ schedule' = generate_schedule(meds.items, now)
             /\ shown' = SidebarShown(input) \cup more \cup {"schedule"}
    ELSE /\ schedule' = NoSchedule
         /\ shown' = SidebarShown(input) \cup more \cup
              (CASE m = "register" ->
                        IF list_raises(meds) THEN {"exception"}
                        ELSE IF Truthy(meds) THEN {"medication_list"} ELSE {}
                 [] m = "schedule" ->
                        IF Truthy(meds) THEN {"exception"} ELSE {"register_first"}
                 [] m = "warnings" ->
                        IF list_raises(meds) THEN {"exception"}
                        ELSE IF Truthy(meds) THEN {"medication_list"}
                        ELSE {"register_first"}
                 [] m = "chat" ->
                        (IF Truthy(meds) THEN {} ELSE {"register_first"})
                        \cup (IF history # <<>> THEN {"transcript"} ELSE {}))

\* a run that makes no call to the external model
NoCall(action, key) ==
    last_run' = [action |-> action, call |-> "none", credential |-> Truthy(key),
                 response |-> <<>>]

\* The file uploader keeps its file only while the register page is built.
Uploader(key, m, file) == ~stopped(key) /\ m = "register" /\ file

\* The user types a key into the sidebar (or empties the field).
EnterKey(k) ==
    /\ pc = "idle"
    /\ k # api_key_input
    /\ api_key_input' = k
    /\ api_key' = sidebar_key(api_key, k)
    /\ uploaded_file' = Uploader(api_key', menu, uploaded_file)
    /\ Page(api_key', k, menu, medications, chat_history, {})
    /\ NoCall("enter_key", api_key')
    /\ UNCHANGED <<medications, chat_history, menu, pc, arg, ret>>

\* The user picks a page in the sidebar.
SelectMenu(m) ==
    /\ pc = "idle"
    /\ m # menu
    /\ menu' = m
    /\ api_key' = sidebar_key(api_key, api_key_input)
    /\ uploaded_file' = Uploader(api_key', m, uploaded_file)
    /\ Page(api_key', api_key_input, m, medications, chat_history, {})
    /\ NoCall("select_menu", api_key')
    /\ UNCHANGED <<medications, chat_history, api_key_input, pc, arg, ret>>

\* The user puts a photo into the uploader of the register page.
UploadFile ==
    /\ pc = "idle"
    /\ ~stopped(api_key) /\ menu = "register" /\ ~uploaded_file
    /\ uploaded_file' = TRUE
    /\ api_key' = sidebar_key(api_key, api_key_input)
    /\ Page(api_key', api_key_input, menu, medications, chat_history, {})
    /\ NoCall("upload", api_key')
    /\ UNCHANGED <<medications, chat_history, api_key_input, menu, pc, arg, ret>>

\* register-medication: the analyze button (lines 224-233), then the list.
Analyze ==
    /\ pc = "idle"
    /\ ~stopped(api_key) /\ menu = "register" /\ uploaded_file
    /\ api_key' = sidebar_key(api_key, api_key_input)
    /\ \E call \in {"ok", "failed"} :
        \E text \in (IF call = "ok" THEN Responses ELSE {<<>>}) :
           LET result == analyze_prescription(call, text)
               caught == IF analyze_caught(call, text)
                         THEN {"analysis_error"} ELSE {}
           IN  /\ last_run' = [action |-> "analyze", call |-> call,
                               credential |-> Truthy(api_key'),
                               response |-> text]
               /\ IF register_raises(result)
                  THEN /\ medications' = medications
                       /\ schedule' = NoSchedule
                       /\ shown' = SidebarShown(api_key_input) \cup caught
                                       \cup {"exception"}
                  ELSE /\ medications' = analyzed_medications(result, medications)
                       /\ Page(api_key', api_key_input, menu, medications',
                               chat_history,
                               caught \cup
                               (IF Truthy(result) /\ PyIn(KeyMedications, result)
                                THEN {"analysis_done"}
                                ELSE {"could_not_analyze"}))
    /\ UNCHANGED <<chat_history, api_key_input, menu, uploaded_file, pc, arg, ret>>

\* clear-medications (lines 248-250): the button stands below the list.
ClearMedications ==
    /\ pc = "idle"
    /\ ~stopped(api_key) /\ menu = "register"
    /\ Truthy(medications) /\ ~list_raises(medications)
    /\ api_key' = sidebar_key(api_key, api_key_input)
    /\ medications' = JArr(<<>>)
    /\ Page(api_key', api_key_input, menu, medications', chat_history, {})
    /\ NoCall("clear_medications", api_key')
    /\ UNCHANGED <<chat_history, api_key_input, menu, uploaded_file, pc, arg, ret>>

\* view-schedule again: ticking a "taken" box reruns the page (lines 280-284);
\* the box's value goes nowhere.
CheckTaken ==
    /\ pc = "idle"
    /\ ~stopped(api_key) /\ menu = "schedule"
    /\ Truthy(medications) /\ ~schedule_raises(medications)
    /\ api_key' = sidebar_key(api_key, api_key_input)
    /\ Page(api_key', api_key_input, menu, medications, chat_history, {})
    /\ NoCall("check_taken", api_key')
    /\ UNCHANGED <<medications, chat_history, api_key_input, menu, uploaded_file,
                   pc, arg, ret>>

\* check-interactions (lines 313-318)
CheckInteractions ==
    /\ pc = "idle"
    /\ ~stopped(api_key) /\ menu = "warnings"
    /\ Truthy(medications) /\ ~list_raises(medications)
    /\ api_key' = sidebar_key(api_key, api_key_input)
    /\ \E call \in CallOutcomes(medications) :
           /\ last_run' = [action |-> "check_interactions", call |-> call,
                           credential |-> Truthy(api_key'), response |-> <<>>]
           /\ Page(api_key', api_key_input, menu, medications, chat_history,
                   IF check_drug_interactions(call) = ErrorReply
                   THEN {"interaction_error"} ELSE {"interactions"})
    /\ UNCHANGED <<medications, chat_history, api_key_input, menu, uploaded_file,
                   pc, arg, ret>>

\* ask-chatbot (lines 345-358)
AskChatbot ==
    /\ pc = "idle"
    /\ ~stopped(api_key) /\ menu = "chat"
    /\ Len(chat_history) < 2 * MaxAsks
    /\ api_key' = sidebar_key(api_key, api_key_input)
    /\ \E user_input \in Questions, call \in CallOutcomes(medications) :
           /\ last_run' = [action |-> "ask", call |-> call,
                           credential |-> Truthy(api_key'), response |-> <<>>]
           /\ chat_history' = ask_history(chat_history, user_input,
                                          chatbot_response(call))
           /\ Page(api_key', api_key_input, menu, medications, chat_history,
                   IF chatbot_response(call) = ErrorReply
                   THEN {"chat_error"} ELSE {"chat_reply"})
    /\ UNCHANGED <<medications, api_key_input, menu, uploaded_file, pc, arg, ret>>

\* clear-chat (lines 361-364)
ClearChat ==
    /\ pc = "idle"
    /\ ~stopped(api_key) /\ menu = "chat"
    /\ chat_history # <<>>
    /\ api_key' = sidebar_key(api_key, api_key_input)
    /\ chat_history' = <<>>
    /\ Page(api_key', api_key_input, menu, medications, chat_history', {})
    /\ NoCall("clear_chat", api_key')
    /\ UNCHANGED <<medications, api_key_input, menu, uploaded_file, pc, arg, ret>>

Init ==
    /\ SessionStart
    /\ pc = "idle"
    /\ arg = <<>>
    /\ ret = <<>>

Next ==
    \/ \E k \in Keys \cup {<<>>} : EnterKey(k)
    \/ \E m \in Menus : SelectMenu(m)
    \/ UploadFile
    \/ Analyze
    \/ ClearMedications
    \/ CheckTaken
    \/ CheckInteractions
    \/ AskChatbot
    \/ ClearChat

Spec == Init /\ [][Next]_vars

----------------------------------------------------------------------------
(* Properties.                                                             *)

\* the input of a direct call
CallMeds == arg.medications
TimingText == get(CallMeds[1], KeyTiming, JStr(<<>>)).s
FrequencyText == get(CallMeds[1], KeyFrequency, JStr(<<>>)).s

RECURSIVE Sorted(_)
Sorted(S) == IF S = {} THEN <<>> ELSE <<SetMin(S)>> \o Sorted(S \ {SetMin(S)})

SlotOrder == <<"08:00", "12:00", "18:00", "22:00">>
SlotWords == <<{Morning}, {Lunch}, {Evening}, {Bedtime, BeforeSleep}>>
\* the slots (as places in SlotOrder) a keyword of which occurs in text
NamedSlots(text) ==
    {i \in 1..4 : \E word \in SlotWords[i] : Contains(word, text)}
\* the slots of S, each once, in the fixed order
InSlotOrder(S) == [j \in 1..Cardinality(S) |-> SlotOrder[Sorted(S)[j]]]

\* C4: when the timing text names at least one time of day, the resolved
\* slots are the named slots, each once, in the order 08:00, 12:00, 18:00,
\* 22:00, wherever and in whatever order the keywords stand in the text.
C4_NamedSlotsInFixedOrder ==
    (pc = "done" /\ NamedSlots(TimingText) # {})
        => ret = InSlotOrder(NamedSlots(TimingText))

\* evening, lunch, morning written in that order resolve to 08:00, 12:00, 18:00
C4_Witness ==
    /\ pc = "done"
    /\ NamedSlots(TimingText) = {1, 2, 3}
    /\ Find(TimingText, Evening) < Find(TimingText, Lunch)
    /\ Find(TimingText, Lunch) < Find(TimingText, Morning)
    /\ ret = <<"08:00", "12:00", "18:00">>

\* C5: the frequency decides only when the timing names no time of day:
\* with a named slot the result is the named slots whatever the frequency;
\* without one it is 08:00, 12:00, 18:00 for a frequency holding "3 times",
\* 08:00, 18:00 for one holding "2 times" and not "3 times", and 08:00
\* otherwise (a missing or empty frequency too).
C5_FrequencyOnlyWithoutTiming ==
    pc = "done" =>
        IF NamedSlots(TimingText) # {}
        THEN ret = InSlotOrder(NamedSlots(TimingText))
        ELSE ret = IF Contains(ThreeTimes, FrequencyText)
                   THEN <<"08:00", "12:00", "18:00">>
                   ELSE IF Contains(TwoTimes, FrequencyText)
                   THEN <<"08:00", "18:00">>
                   ELSE <<"08:00">>

\* timing says morning only, frequency says 3 times: morning only
C5_Witness ==
    /\ pc = "done"
    /\ NamedSlots(TimingText) = {1}
    /\ Contains(ThreeTimes, FrequencyText)
    /\ ret = <<"08:00">>

\* C2 (as amended): generate_schedule called with an empty medication list
\* returns an empty mapping: it has no date key at all.
C2_EmptyListEmptyMapping ==
    (pc = "done" /\ CallMeds = <<>>) => DOMAIN ret = {}

C2_Witness == pc = "done" /\ CallMeds = <<>> /\ ret = NoSchedule

\* C2 (as claimed): generate_schedule called with an empty medication list
\* returns exactly seven date keys, today and the six days after it, each
\* with an empty entry list.
C2_EmptyListSevenDates ==
    (pc = "done" /\ CallMeds = <<>>)
        => (DOMAIN ret = 0..6 /\ \A d \in DOMAIN ret : ret[d] = <<>>)

RECURSIVE AllEntries(_, _), SlotCount(_, _), EntryCount(_, _)
\* the entries of the medications from i on, in list order
AllEntries(meds, i) ==
    IF i > Len(meds) THEN <<>> ELSE entries(meds[i]) \o AllEntries(meds, i + 1)
SlotCount(meds, i) ==
    IF i > Len(meds) THEN 0 ELSE Len(times(meds[i])) + SlotCount(meds, i + 1)
EntryCount(sched, dates) ==
    IF dates = {} THEN 0
    ELSE LET d == SetMin(dates)
         IN  Len(sched[d]) + EntryCount(sched, dates \ {d})

\* C3: on every date of the returned schedule every medication of the list
\* has exactly its resolved time slots, one entry for each slot with
\* taken = FALSE, none merged or dropped where two medications share a slot;
\* so the schedule holds 7 times the sum of the slot counts entries.
C3_EveryDateHoldsEverySlot ==
    pc = "done" =>
        /\ \A d \in DOMAIN ret : ret[d] = AllEntries(CallMeds, 1)
        /\ EntryCount(ret, DOMAIN ret) = 7 * SlotCount(CallMeds, 1)

\* C9: for a non-empty list the date keys are exactly the 7 days from the day
\* of the call on, and every medication is scheduled on each of them,
\* whatever the clock reads while the call runs.
C9_SevenDaysFromTheCallDay ==
    (pc = "done" /\ CallMeds # <<>>) =>
        /\ DOMAIN ret = 0..6
        /\ \A d \in DOMAIN ret : \A i \in 1..Len(CallMeds) :
               \E j \in 1..Len(ret[d]) :
                   ret[d][j].medication = Item(CallMeds[i], KeyName)

\* C6: a payload inside a fenced block (either opening, with or without text
\* around it) parses to what the same payload parses to without the fence.
C6_FencedParsesAsBare == pc = "done" => ret.fenced = ret.bare

\* the response of an analyze run is a well formed medication list
WellFormed(text) ==
    LET r == parse_response(text)
    IN  /\ r.ok
        /\ r.v.t = "obj"
        /\ HasKey(r.v, KeyMedications)
        /\ Item(r.v, KeyMedications).t = "arr"
        /\ \A i \in 1..Len(Item(r.v, KeyMedications).items) :
               LET med == Item(r.v, KeyMedications).items[i]
               IN  med.t = "obj" /\ HasKey(med, KeyName)

\* C1: a register-medication run whose response is not JSON, or lacks the
\* medications list or a record's name, leaves the stored list as it was and
\* shows the "could not analyze" failure.
C1_BadResponseKeepsList ==
    [][(last_run'.action = "analyze" /\ last_run'.call = "ok"
            /\ ~WellFormed(last_run'.response))
          => (medications' = medications /\ "could_not_analyze" \in shown')]_vars

\* C7: no run calls the external model while the session holds no credential;
\* without a credential every run ends at the prompt for a key.
C7_NoCallWithoutCredential ==
    /\ last_run.call # "none" => last_run.credential
    /\ (api_key = None /\ last_run.action # "none")
           => (last_run.call = "none" /\ "enter_api_key" \in shown)

\* the chat page asked for without a key: refused with the prompt
C7_Witness ==
    /\ api_key = None
    /\ last_run.action = "select_menu"
    /\ menu = "chat"
    /\ shown = {"enter_api_key"}

FailureShown ==
    CASE last_run.action = "analyze" ->
             {"analysis_error", "could_not_analyze"} \subseteq shown
      [] last_run.action = "check_interactions" -> "interaction_error" \in shown
      [] last_run.action = "ask" -> "chat_error" \in shown
      [] OTHER -> FALSE

\* C8 (as amended): a run whose call to the external model fails shows a
\* failure message and keeps the medication list and the credential; the
\* transcript is kept by register-medication and check-interactions, and
\* ask-chatbot adds to it the question and an assistant message holding the
\* failure text.
C8_FailedCallKeepsListAndKey ==
    [][last_run'.call = "failed" =>
          /\ FailureShown'
          /\ medications' = medications
          /\ api_key' = api_key
          /\ IF last_run'.action = "ask"
             THEN /\ Len(chat_history') = Len(chat_history) + 2
                  /\ SubSeq(chat_history', 1, Len(chat_history)) = chat_history
                  /\ chat_history'[Len(chat_history) + 1].role = "user"
                  /\ chat_history'[Len(chat_history) + 2]
                         = [role |-> "assistant", content |-> ErrorReply]
             ELSE chat_history' = chat_history]_vars

C8_Witness ==
    /\ last_run.action = "ask"
    /\ last_run.call = "failed"
    /\ "chat_error" \in shown
    /\ chat_history # <<>>
    /\ chat_history[Len(chat_history)].content = ErrorReply

\* C8 (as claimed): a run whose call to the external model fails shows a
\* failure message and leaves medication list, transcript and credential as
\* they were.
C8_FailedCallKeepsState ==
    [][last_run'.call = "failed" =>
          /\ FailureShown'
          /\ medications' = medications
          /\ chat_history' = chat_history
          /\ api_key' = api_key]_vars

Alternating(history) ==
    /\ Len(history) % 2 = 0
    /\ \A i \in 1..Len(history) :
           history[i].role = IF i % 2 = 1 THEN "user" ELSE "assistant"

\* C10: the transcript is always empty or user, assistant, user, assistant,
\* ...: ask-chatbot adds one user and one assistant message (also when the
\* call fails), clear-chat empties it, no other run changes it.
C10_TranscriptAlternates ==
    /\ []Alternating(chat_history)
    /\ [][CASE last_run'.action = "ask" ->
                   /\ Len(chat_history') = Len(chat_history) + 2
                   /\ SubSeq(chat_history', 1, Len(chat_history)) = chat_history
               [] last_run'.action = "clear_chat" -> chat_history' = <<>>
               [] OTHER -> chat_history' = chat_history]_vars

\* two questions asked, the first of them answered by a failure
C10_Witness ==
    /\ Len(chat_history) = 4
    /\ chat_history[2].content = ErrorReply
    /\ chat_history[4].content = Answer

====
